---------------------------- MODULE Spec2Model ----------------------------
(***************************************************************************)
(* A model of i18n_utils.py: the WSGI middleware I18nMiddleware, the       *)
(* handler helper BaseHandler.get_i18n_js and the pure function            *)
(* convert_translations_to_dict.                                           *)
(*                                                                         *)
(* Text is modelled as a sequence of tokens (Str): a token is either one   *)
(* delimiter character (":", ";", "=", a whitespace character), one digit *)
(* or sign of a number that int() reads, or a run of characters that holds *)
(* none of these, so that split, strip, startswith and int act on token    *)
(* sequences exactly as they act on the characters.  The empty string ''   *)
(* is <<>>.  An ASCII character is written as itself, whether the text is  *)
(* a byte string or unicode text.  A character of unicode text that is     *)
(* outside ASCII, or its U+0000 or one of its separators U+001C..U+001F,   *)
(* is the token "U+XXXX" of its code point in four to six upper-case hex   *)
(* digits; such a token stands in unicode text only (a                     *)
(* catalog that declares a charset holds unicode text).  The bytes 0x1c to *)
(* 0x1f and 0x80 to 0xff of a byte string are other tokens, which no       *)
(* operation here treats specially.                                        *)
(*                                                                         *)
(* A dict key of a gettext catalog is a record: StrKey(m) for the plain    *)
(* string m and TupleKey(m, i) for the tuple (m, i).  None and a present   *)
(* optional value are <<>> and <<v>>.                                      *)
(***************************************************************************)
EXTENDS Integers, Sequences, FiniteSets, TLC

(***************************************************************************)
(* Bounds of the model.                                                    *)
(***************************************************************************)
\* requests handled concurrently
NumReq == 2
\* segments of an Accept-Language header
MaxSegs == 2
\* links of a catalog's fallback chain
MaxFallback == 2

(***************************************************************************)
(* Python str operations on token sequences.                               *)
(***************************************************************************)
\* the whitespace that strip() and int() remove from a byte string and from
\* unicode text alike: space, \t, \n, \r, \f (0x0c) and the vertical tab
\* 0x0b (written raw)
AsciiWS == {" ", "\t", "\n", "\r", "\f", ""}

\* the further whitespace of unicode text (Py_UNICODE_ISSPACE, Unicode 5.2)
UnicodeWS ==
    {"U+001C", "U+001D", "U+001E", "U+001F", "U+0085", "U+00A0", "U+1680",
     "U+180E", "U+2000", "U+2001", "U+2002", "U+2003", "U+2004", "U+2005",
     "U+2006", "U+2007", "U+2008", "U+2009", "U+200A", "U+2028", "U+2029",
     "U+202F", "U+205F", "U+3000"}

WS == AsciiWS \cup UnicodeWS

StartsWith(s, p) ==
    /\ Len(s) >= Len(p)
    /\ SubSeq(s, 1, Len(p)) = p

RECURSIVE LStrip(_)
LStrip(s) ==
    IF s # <<>> /\ Head(s) \in WS THEN LStrip(Tail(s)) ELSE s

RECURSIVE RStrip(_)
RStrip(s) ==
    IF s # <<>> /\ s[Len(s)] \in WS THEN RStrip(SubSeq(s, 1, Len(s) - 1)) ELSE s

\* s.strip()
Strip(s) == RStrip(LStrip(s))

\* the position of the first sep in s, 0 when there is none
RECURSIVE IndexOf(_, _, _)
IndexOf(s, sep, from) ==
    IF from > Len(s) THEN 0
    ELSE IF s[from] = sep THEN from
    ELSE IndexOf(s, sep, from + 1)

\* s.split(sep): always at least one piece
RECURSIVE Split(_, _)
Split(s, sep) ==
    LET k == IndexOf(s, sep, 1) IN
    IF k = 0 THEN <<s>>
    ELSE <<SubSeq(s, 1, k - 1)>> \o Split(SubSeq(s, k + 1, Len(s)), sep)

\* s.split(sep, 1)
SplitOnce(s, sep) ==
    LET k == IndexOf(s, sep, 1) IN
    IF k = 0 THEN <<s>>
    ELSE <<SubSeq(s, 1, k - 1), SubSeq(s, k + 1, Len(s))>>

AsciiDigits == <<"0", "1", "2", "3", "4", "5", "6", "7", "8", "9">>

\* the decimal digits of unicode text outside ASCII (Unicode 5.2, category
\* Nd), each run from its zero to its nine; the last six runs lie outside the
\* Basic Multilingual Plane
UnicodeDigitRuns == <<
    <<"U+0660", "U+0661", "U+0662", "U+0663", "U+0664",
      "U+0665", "U+0666", "U+0667", "U+0668", "U+0669">>,
    <<"U+06F0", "U+06F1", "U+06F2", "U+06F3", "U+06F4",
      "U+06F5", "U+06F6", "U+06F7", "U+06F8", "U+06F9">>,
    <<"U+07C0", "U+07C1", "U+07C2", "U+07C3", "U+07C4",
      "U+07C5", "U+07C6", "U+07C7", "U+07C8", "U+07C9">>,
    <<"U+0966", "U+0967", "U+0968", "U+0969", "U+096A",
      "U+096B", "U+096C", "U+096D", "U+096E", "U+096F">>,
    <<"U+09E6", "U+09E7", "U+09E8", "U+09E9", "U+09EA",
      "U+09EB", "U+09EC", "U+09ED", "U+09EE", "U+09EF">>,
    <<"U+0A66", "U+0A67", "U+0A68", "U+0A69", "U+0A6A",
      "U+0A6B", "U+0A6C", "U+0A6D", "U+0A6E", "U+0A6F">>,
    <<"U+0AE6", "U+0AE7", "U+0AE8", "U+0AE9", "U+0AEA",
      "U+0AEB", "U+0AEC", "U+0AED", "U+0AEE", "U+0AEF">>,
    <<"U+0B66", "U+0B67", "U+0B68", "U+0B69", "U+0B6A",
      "U+0B6B", "U+0B6C", "U+0B6D", "U+0B6E", "U+0B6F">>,
    <<"U+0BE6", "U+0BE7", "U+0BE8", "U+0BE9", "U+0BEA",
      "U+0BEB", "U+0BEC", "U+0BED", "U+0BEE", "U+0BEF">>,
    <<"U+0C66", "U+0C67", "U+0C68", "U+0C69", "U+0C6A",
      "U+0C6B", "U+0C6C", "U+0C6D", "U+0C6E", "U+0C6F">>,
    <<"U+0CE6", "U+0CE7", "U+0CE8", "U+0CE9", "U+0CEA",
      "U+0CEB", "U+0CEC", "U+0CED", "U+0CEE", "U+0CEF">>,
    <<"U+0D66", "U+0D67", "U+0D68", "U+0D69", "U+0D6A",
      "U+0D6B", "U+0D6C", "U+0D6D", "U+0D6E", "U+0D6F">>,
    <<"U+0E50", "U+0E51", "U+0E52", "U+0E53", "U+0E54",
      "U+0E55", "U+0E56", "U+0E57", "U+0E58", "U+0E59">>,
    <<"U+0ED0", "U+0ED1", "U+0ED2", "U+0ED3", "U+0ED4",
      "U+0ED5", "U+0ED6", "U+0ED7", "U+0ED8", "U+0ED9">>,
    <<"U+0F20", "U+0F21", "U+0F22", "U+0F23", "U+0F24",
      "U+0F25", "U+0F26", "U+0F27", "U+0F28", "U+0F29">>,
    <<"U+1040", "U+1041", "U+1042", "U+1043", "U+1044",
      "U+1045", "U+1046", "U+1047", "U+1048", "U+1049">>,
    <<"U+1090", "U+1091", "U+1092", "U+1093", "U+1094",
      "U+1095", "U+1096", "U+1097", "U+1098", "U+1099">>,
    <<"U+17E0", "U+17E1", "U+17E2", "U+17E3", "U+17E4",
      "U+17E5", "U+17E6", "U+17E7", "U+17E8", "U+17E9">>,
    <<"U+1810", "U+1811", "U+1812", "U+1813", "U+1814",
      "U+1815", "U+1816", "U+1817", "U+1818", "U+1819">>,
    <<"U+1946", "U+1947", "U+1948", "U+1949", "U+194A",
      "U+194B", "U+194C", "U+194D", "U+194E", "U+194F">>,
    <<"U+19D0", "U+19D1", "U+19D2", "U+19D3", "U+19D4",
      "U+19D5", "U+19D6", "U+19D7", "U+19D8", "U+19D9">>,
    <<"U+1A80", "U+1A81", "U+1A82", "U+1A83", "U+1A84",
      "U+1A85", "U+1A86", "U+1A87", "U+1A88", "U+1A89">>,
    <<"U+1A90", "U+1A91", "U+1A92", "U+1A93", "U+1A94",
      "U+1A95", "U+1A96", "U+1A97", "U+1A98", "U+1A99">>,
    <<"U+1B50", "U+1B51", "U+1B52", "U+1B53", "U+1B54",
      "U+1B55", "U+1B56", "U+1B57", "U+1B58", "U+1B59">>,
    <<"U+1BB0", "U+1BB1", "U+1BB2", "U+1BB3", "U+1BB4",
      "U+1BB5", "U+1BB6", "U+1BB7", "U+1BB8", "U+1BB9">>,
    <<"U+1C40", "U+1C41", "U+1C42", "U+1C43", "U+1C44",
      "U+1C45", "U+1C46", "U+1C47", "U+1C48", "U+1C49">>,
    <<"U+1C50", "U+1C51", "U+1C52", "U+1C53", "U+1C54",
      "U+1C55", "U+1C56", "U+1C57", "U+1C58", "U+1C59">>,
    <<"U+A620", "U+A621", "U+A622", "U+A623", "U+A624",
      "U+A625", "U+A626", "U+A627", "U+A628", "U+A629">>,
    <<"U+A8D0", "U+A8D1", "U+A8D2", "U+A8D3", "U+A8D4",
      "U+A8D5", "U+A8D6", "U+A8D7", "U+A8D8", "U+A8D9">>,
    <<"U+A900", "U+A901", "U+A902", "U+A903", "U+A904",
      "U+A905", "U+A906", "U+A907", "U+A908", "U+A909">>,
    <<"U+A9D0", "U+A9D1", "U+A9D2", "U+A9D3", "U+A9D4",
      "U+A9D5", "U+A9D6", "U+A9D7", "U+A9D8", "U+A9D9">>,
    <<"U+AA50", "U+AA51", "U+AA52", "U+AA53", "U+AA54",
      "U+AA55", "U+AA56", "U+AA57", "U+AA58", "U+AA59">>,
    <<"U+ABF0", "U+ABF1", "U+ABF2", "U+ABF3", "U+ABF4",
      "U+ABF5", "U+ABF6", "U+ABF7", "U+ABF8", "U+ABF9">>,
    <<"U+FF10", "U+FF11", "U+FF12", "U+FF13", "U+FF14",
      "U+FF15", "U+FF16", "U+FF17", "U+FF18", "U+FF19">>,
    <<"U+104A0", "U+104A1", "U+104A2", "U+104A3", "U+104A4",
      "U+104A5", "U+104A6", "U+104A7", "U+104A8", "U+104A9">>,
    <<"U+1D7CE", "U+1D7CF", "U+1D7D0", "U+1D7D1", "U+1D7D2",
      "U+1D7D3", "U+1D7D4", "U+1D7D5", "U+1D7D6", "U+1D7D7">>,
    <<"U+1D7D8", "U+1D7D9", "U+1D7DA", "U+1D7DB", "U+1D7DC",
      "U+1D7DD", "U+1D7DE", "U+1D7DF", "U+1D7E0", "U+1D7E1">>,
    <<"U+1D7E2", "U+1D7E3", "U+1D7E4", "U+1D7E5", "U+1D7E6",
      "U+1D7E7", "U+1D7E8", "U+1D7E9", "U+1D7EA", "U+1D7EB">>,
    <<"U+1D7EC", "U+1D7ED", "U+1D7EE", "U+1D7EF", "U+1D7F0",
      "U+1D7F1", "U+1D7F2", "U+1D7F3", "U+1D7F4", "U+1D7F5">>,
    <<"U+1D7F6", "U+1D7F7", "U+1D7F8", "U+1D7F9", "U+1D7FA",
      "U+1D7FB", "U+1D7FC", "U+1D7FD", "U+1D7FE", "U+1D7FF">> >>

\* U+19DA, New Tai Lue tham digit one, is a decimal digit of value 1 too
ThamDigitOne == "U+19DA"

DigitRuns == <<AsciiDigits>> \o UnicodeDigitRuns

Digits ==
    {DigitRuns[r][k] : r \in 1..Len(DigitRuns), k \in 1..10} \cup {ThamDigitOne}

DigitValue(d) ==
    IF d = ThamDigitOne THEN 1
    ELSE CHOOSE v \in 0..9 : \E r \in 1..Len(DigitRuns) : DigitRuns[r][v + 1] = d

HexDigits ==
    <<"0", "1", "2", "3", "4", "5", "6", "7", "8", "9", "A", "B", "C", "D", "E", "F">>

\* a token "U+XXXX" that names a code point
IsCodePoint(tok) ==
    /\ Len(tok) \in 6..8
    /\ SubSeq(tok, 1, 2) = "U+"
    /\ \A k \in 3..Len(tok) : \E h \in 1..16 : SubSeq(tok, k, k) = HexDigits[h]

RECURSIVE HexValue(_, _, _)
HexValue(tok, k, acc) ==
    IF k > Len(tok) THEN acc
    ELSE HexValue(tok, k + 1,
             16 * acc + (CHOOSE h \in 1..16 : SubSeq(tok, k, k) = HexDigits[h]) - 1)

\* the code point a token "U+XXXX" names
CodePoint(tok) == HexValue(tok, 3, 0)

\* the characters of unicode text that int() cannot encode to decimal: U+0000
\* and every character above U+00FF that is neither whitespace nor a digit
NotDecimal(tok) ==
    /\ IsCodePoint(tok)
    /\ CodePoint(tok) = 0 \/ CodePoint(tok) > 255
    /\ tok \notin WS
    /\ tok \notin Digits

\* the value of a run of digits, read from the left
RECURSIVE DecimalValue(_, _)
DecimalValue(ds, acc) ==
    IF ds = <<>> THEN acc
    ELSE DecimalValue(Tail(ds), 10 * acc + DigitValue(Head(ds)))

\* int(s).  Unicode text is first encoded to decimal: whitespace becomes a
\* space, a decimal digit its ASCII digit, and U+0000 or a character above
\* U+00FF that is neither raises UnicodeEncodeError.  Then whitespace is
\* skipped, one sign is read, whitespace is skipped again, a run of digits is
\* read and trailing whitespace is skipped; anything else raises ValueError.
IntOf(s) ==
    LET t == Strip(s)
        signed == t # <<>> /\ Head(t) \in {"+", "-"}
        ds == IF signed THEN LStrip(Tail(t)) ELSE t
    IN  IF \E k \in 1..Len(s) : NotDecimal(s[k])
        THEN [ok |-> FALSE, exc |-> "UnicodeEncodeError", val |-> 0]
        ELSE IF ds # <<>> /\ \A k \in 1..Len(ds) : ds[k] \in Digits
        THEN [ok |-> TRUE, exc |-> "",
              val |-> IF signed /\ Head(t) = "-" THEN 0 - DecimalValue(ds, 0)
                      ELSE DecimalValue(ds, 0)]
        ELSE [ok |-> FALSE, exc |-> "ValueError", val |-> 0]

(***************************************************************************)
(* Catalog keys and values.                                                *)
(***************************************************************************)
\* the index of a tuple key is text, as int() reads it
StrKey(m) == [t |-> "str", id |-> m, i |-> <<>>]
TupleKey(m, i) == [t |-> "tuple", id |-> m, i |-> i]
MetaKey == StrKey("")

\* a value of the output 'catalog' dict: a string or a list of strings
StrVal(s) == [t |-> "str", s |-> s, l |-> <<>>]
ListVal(l) == [t |-> "list", s |-> <<>>, l |-> l]

\* [''] * n
EmptyStrings(n) == [k \in 1..n |-> <<>>]

None == <<>>
Some(v) == <<v>>

\* '(n == 1) ? 0 : 1'
DefaultPlural ==
    <<"(n", " ", "=", "=", " ", "1)", " ", "?", " ", "0", " ", ":", " ", "1">>

\* 'Plural-Forms:', 'nplurals=', 'plural='
PluralFormsPrefix == <<"Plural-Forms", ":">>
NPluralsPrefix == <<"nplurals", "=">>
PluralPrefix == <<"plural", "=">>

(***************************************************************************)
(* convert_translations_to_dict, lines 34-48: the plural rule.             *)
(***************************************************************************)
\* lines 36-39: the text after 'Plural-Forms:' of the last such line of the
\* metadata entry, None without one
RECURSIVE LastPluralLine(_, _)
LastPluralLine(lines, plural) ==
    IF lines = <<>> THEN plural
    ELSE LET l == Head(lines) IN
         LastPluralLine(Tail(lines),
             IF StartsWith(l, PluralFormsPrefix)
             THEN Some(Strip(SplitOnce(l, ":")[2]))
             ELSE plural)

PluralHeader(_catalog) ==
    IF MetaKey \in DOMAIN _catalog
    THEN LastPluralLine(Split(_catalog[MetaKey], "\n"), None)
    ELSE None

\* lines 41-45: the loop over the ';'-separated elements
RECURSIVE PluralElements(_, _)
PluralElements(elements, acc) ==
    IF elements = <<>> \/ ~acc.ok THEN acc
    ELSE LET element == Strip(Head(elements)) IN
         PluralElements(Tail(elements),
             IF StartsWith(element, NPluralsPrefix)
             THEN LET n == IntOf(SplitOnce(element, "=")[2]) IN
                  IF n.ok THEN [acc EXCEPT !.n_plural = n.val]
                  ELSE [acc EXCEPT !.ok = FALSE, !.exc = n.exc]
             ELSE IF StartsWith(element, PluralPrefix)
             THEN [acc EXCEPT !.plural = SplitOnce(element, "=")[2]]
             ELSE acc)

\* lines 34-48
PluralRule(_catalog) ==
    LET plural == PluralHeader(_catalog) IN
    IF plural # None
    THEN PluralElements(Split(plural[1], ";"),
             [ok |-> TRUE, exc |-> "", n_plural |-> 2, plural |-> plural[1]])
    ELSE [ok |-> TRUE, exc |-> "", n_plural |-> 2, plural |-> DefaultPlural]

(***************************************************************************)
(* convert_translations_to_dict, lines 55-63: the loop over the entries,   *)
(* in the order items() yields them.                                       *)
(***************************************************************************)
\* d[k] = v on a dict
DictSet(d, k, v) == [x \in DOMAIN d \cup {k} |-> IF x = k THEN v ELSE d[x]]

\* lines 56-63 for one item
ConvertItem(acc, key, value, n_plural) ==
    IF key = MetaKey THEN acc
    ELSE IF key.t = "str"
    THEN [acc EXCEPT !.catalog = DictSet(acc.catalog, key.id, StrVal(value))]
    ELSE LET c1 == IF key.id \in DOMAIN acc.catalog THEN acc.catalog
                   ELSE DictSet(acc.catalog, key.id,
                                ListVal(EmptyStrings(n_plural)))
             idx == IntOf(key.i)
             len == IF c1[key.id].t = "list" THEN Len(c1[key.id].l) ELSE 0
             \* a list counts a negative index from its end
             pos == IF idx.val < 0 THEN len + idx.val + 1 ELSE idx.val + 1
         IN  IF ~idx.ok
             THEN [acc EXCEPT !.ok = FALSE, !.exc = idx.exc, !.catalog = c1]
             ELSE IF c1[key.id].t = "str"
             THEN [acc EXCEPT !.ok = FALSE, !.exc = "TypeError", !.catalog = c1]
             ELSE IF pos < 1 \/ pos > len
             THEN [acc EXCEPT !.ok = FALSE, !.exc = "IndexError", !.catalog = c1]
             ELSE [acc EXCEPT !.catalog = DictSet(c1, key.id,
                      ListVal([c1[key.id].l EXCEPT ![pos] = value]))]

RECURSIVE ConvertItems(_, _, _, _)
ConvertItems(acc, _catalog, items, n_plural) ==
    IF items = <<>> \/ ~acc.ok THEN acc
    ELSE ConvertItems(ConvertItem(acc, Head(items), _catalog[Head(items)], n_plural),
                      _catalog, Tail(items), n_plural)

\* the empty dict
EmptyDict == [x \in {} |-> 0]

\* what a call that raised returns here
Raised(exc) == [ok |-> FALSE, exc |-> exc, val |-> <<>>]

\* a faulty variant: the fallback is never converted
convert_without_fallback(js_translations, orders) ==
    \* line 36 reads js_translations._catalog
    IF js_translations.class # "GNUTranslations" THEN Raised("AttributeError")
    ELSE
    LET rule == PluralRule(js_translations._catalog) IN
    IF ~rule.ok THEN Raised(rule.exc)
    ELSE
    LET done == ConvertItems([ok |-> TRUE, exc |-> "", catalog |-> EmptyDict],
                             js_translations._catalog, Head(orders),
                             rule.n_plural)
    IN
    IF ~done.ok THEN Raised(done.exc)
    ELSE [ok |-> TRUE, exc |-> "",
          val |-> Some([plural |-> rule.plural,
                        catalog |-> done.catalog,
                        fallback |-> None])]

(***************************************************************************)
(* convert_translations_to_dict(js_translations).  orders[k] is the order  *)
(* in which _catalog.items() yields the keys of the k-th catalog of the    *)
(* chain.  The result is [ok, exc, val]: val is <<translations_dict>> when *)
(* the call returns and exc names the exception when it raises.            *)
(***************************************************************************)
RECURSIVE convert_translations_to_dict(_, _)
convert_translations_to_dict(js_translations, orders) ==
    \* line 36 reads js_translations._catalog
    IF js_translations.class # "GNUTranslations" THEN Raised("AttributeError")
    ELSE
    LET rule == PluralRule(js_translations._catalog) IN
    IF ~rule.ok THEN Raised(rule.exc)
    ELSE
    LET fb == IF js_translations._fallback # None
              THEN convert_translations_to_dict(js_translations._fallback[1],
                                                Tail(orders))
              ELSE [ok |-> TRUE, exc |-> "", val |-> None]
    IN
    IF ~fb.ok THEN fb
    ELSE
    LET done == ConvertItems([ok |-> TRUE, exc |-> "", catalog |-> EmptyDict],
                             js_translations._catalog, Head(orders),
                             rule.n_plural)
    IN
    IF ~done.ok THEN Raised(done.exc)
    ELSE [ok |-> TRUE, exc |-> "",
          val |-> Some([plural |-> rule.plural,
                        catalog |-> done.catalog,
                        fallback |-> fb.val])]


(***************************************************************************)
(* The catalogs the converter is run on.                                   *)
(***************************************************************************)
\* 'Content-Type: text/plain; charset=UTF-8\n'
ContentTypeLine ==
    <<"Content-Type", ":", " ", "text/plain", ";", " ", "charset", "=",
      "UTF-8", "\n">>

\* no Plural-Forms line
MetaNoPluralForms == ContentTypeLine
\* 'Plural-Forms: nplurals=3; plural=(n%10==1 && n%100!=11) ? 0 : 2;\n'
MetaThreeForms ==
    ContentTypeLine \o
    <<"Plural-Forms", ":", " ", "nplurals", "=", "3", ";", " ", "plural", "=",
      "(n%10", "=", "=", "1", " ", "&&", " ", "n%100!", "=", "11)", " ", "?",
      " ", "0", " ", ":", " ", "2", ";", "\n">>
\* 'Plural-Forms: nplurals=1; plural=0;\n'
MetaOneForm ==
    ContentTypeLine \o
    <<"Plural-Forms", ":", " ", "nplurals", "=", "1", ";", " ", "plural", "=",
      "0", ";", "\n">>
\* 'Plural-Forms: nplurals=two; plural=(n != 1);\n': nplurals is no integer
MetaBadNPlurals ==
    ContentTypeLine \o
    <<"Plural-Forms", ":", " ", "nplurals", "=", "two", ";", " ", "plural",
      "=", "(n", " ", "!", "=", " ", "1)", ";", "\n">>
\* 'Plural-Forms: plural=(n != 1);\n': no nplurals
MetaNoNPlurals ==
    ContentTypeLine \o
    <<"Plural-Forms", ":", " ", "plural", "=", "(n", " ", "!", "=", " ", "1)",
      ";", "\n">>
\* 'Plural-Forms: nplurals=3;\n': no plural= sub-field
MetaNoPluralExpr ==
    ContentTypeLine \o
    <<"Plural-Forms", ":", " ", "nplurals", "=", "3", ";", "\n">>

\* 'Plural-Forms: nplurals=6; plural=0;\n'
MetaSixForms ==
    ContentTypeLine \o
    <<"Plural-Forms", ":", " ", "nplurals", "=", "6", ";", " ", "plural", "=",
      "0", ";", "\n">>
\* 'Plural-Forms: plural=n; nplurals=12\r\n', after a Content-Type line that
\* ends in \r\n too
MetaCrLf ==
    <<"Content-Type", ":", " ", "text/plain", "\r", "\n">> \o
    <<"Plural-Forms", ":", " ", "plural", "=", "n", ";", " ", "nplurals", "=",
      "1", "2", "\r", "\n">>

\* u'Plural-Forms: nplurals=3\xa0; plural=n\x85\n', unicode text
MetaUnicodeSpaces ==
    ContentTypeLine \o
    <<"Plural-Forms", ":", " ", "nplurals", "=", "3", "U+00A0", ";", " ",
      "plural", "=", "n", "U+0085", "\n">>
\* 'Plural-Forms: nplurals=+ 3; plural=n\n'
MetaSignedNPlurals ==
    ContentTypeLine \o
    <<"Plural-Forms", ":", " ", "nplurals", "=", "+", " ", "3", ";", " ",
      "plural", "=", "n", "\n">>

\* '(n%10==1 && n%100!=11) ? 0 : 2'
ThreeFormsPlural ==
    <<"(n%10", "=", "=", "1", " ", "&&", " ", "n%100!", "=", "11)", " ", "?",
      " ", "0", " ", ":", " ", "2">>

\* Plural-Forms lines that cannot be parsed
UnparseableMetas == {MetaBadNPlurals, MetaNoNPlurals, MetaNoPluralExpr}
MetaSamples ==
    {MetaNoPluralForms, MetaThreeForms, MetaOneForm} \cup UnparseableMetas

EntryKeys ==
    {StrKey("Hello"), StrKey("Cart"), TupleKey("Cart", <<"0">>), TupleKey("Cart", <<"1">>)}

EntryValue(key) ==
    CASE key = StrKey("Hello") -> <<"Czesc">>
      [] key = StrKey("Cart") -> <<"Koszyk">>
      [] key = TupleKey("Cart", <<"0">>) -> <<"koszyk">>
      [] key = TupleKey("Cart", <<"1">>) -> <<"koszyki">>

\* a GNUTranslations object: its _catalog dict and its _fallback
Translations(_catalog, _fallback) ==
    [class |-> "GNUTranslations", _catalog |-> _catalog, _fallback |-> _fallback]

\* the _catalog with the metadata entry meta (None: no metadata entry) and
\* the entries keys
MkCatalog(meta, keys) ==
    [k \in keys \cup (IF meta = None THEN {} ELSE {MetaKey}) |->
        IF k = MetaKey THEN meta[1] ELSE EntryValue(k)]

\* catalogs with more plural forms, a signed or zero-padded index, an index
\* out of range, \r\n line ends, and the whitespace and digits of unicode
\* text
ExtraCatalogs ==
    {(MetaKey :> MetaUnicodeSpaces)
        @@ (TupleKey("Cart", <<"U+0662", "U+3000">>) :> <<"koszykow">>),
     (MetaKey :> MetaSignedNPlurals)
        @@ (TupleKey("Cart", <<"U+001F", "2">>) :> <<"koszykow">>),
     (TupleKey("Cart", <<"-", " ", "1">>) :> <<"koszyki">>),
     (TupleKey("Cart", <<"+", " ", "1">>) :> <<"koszyki">>),
     (TupleKey("Cart", <<"U+FF11">>) :> <<"koszyki">>),
     (TupleKey("Cart", <<"1", "U+0142">>) :> <<"koszyki">>)} \cup
    {(MetaKey :> MetaSixForms) @@ (TupleKey("Cart", <<"5">>) :> <<"koszykow">>),
     (MetaKey :> MetaSixForms) @@ (TupleKey("Cart", <<"6">>) :> <<"koszykow">>),
     (MetaKey :> MetaCrLf) @@ (TupleKey("Cart", <<"1", "1">>) :> <<"koszykow">>),
     (TupleKey("Cart", <<"-", "1">>) :> <<"koszyki">>),
     (TupleKey("Cart", <<"-", "3">>) :> <<"koszyki">>),
     (TupleKey("Cart", <<"+", "1">>) :> <<"koszyki">>),
     (TupleKey("Cart", <<"0", "1">>) :> <<"koszyki">>),
     (TupleKey("Cart", <<"x">>) :> <<"koszyki">>)}

PrimaryCatalogs ==
    {MkCatalog(meta, keys) :
        meta \in {None} \cup {Some(m) : m \in MetaSamples},
        keys \in SUBSET EntryKeys}
    \cup ExtraCatalogs

FallbackCatalogs ==
    {MkCatalog(None, {StrKey("Hello")}),
     MkCatalog(Some(MetaOneForm), {TupleKey("Cart", <<"0">>)})}

\* the fallback chains of at most n links
RECURSIVE FallbackChains(_)
FallbackChains(n) ==
    IF n = 0 THEN {None}
    ELSE {None} \cup
         {Some(Translations(c, f)) :
             c \in FallbackCatalogs, f \in FallbackChains(n - 1)}

ConvInputs ==
    {Translations(c, f) : c \in PrimaryCatalogs, f \in FallbackChains(MaxFallback)}

\* the orders in which a dict's items() can yield the keys S
RECURSIVE Perms(_)
Perms(S) ==
    IF S = {} THEN {<<>>}
    ELSE UNION {{<<x>> \o p : p \in Perms(S \ {x})} : x \in S}

\* one iteration order for each catalog of the chain
RECURSIVE ItemOrders(_)
ItemOrders(tr) ==
    {<<o>> \o rest :
        o \in (IF tr.class = "GNUTranslations" THEN Perms(DOMAIN tr._catalog)
                ELSE {<<>>}),
        rest \in (IF tr._fallback = None THEN {<<>>}
                  ELSE ItemOrders(tr._fallback[1]))}

(***************************************************************************)
(* webob's AcceptLanguage, as I18nMiddleware.__call__ uses it.  A header   *)
(* is a sequence of segments [name, q]: the language range and the text of *)
(* its q parameter ("" when the segment has none).                         *)
(***************************************************************************)
Langs == {"en", "pl", "ja"}
QTexts == {"", "0.5"}
Segments == [name : Langs, q : QTexts]

\* the quality of a segment in tenths: 1 without a q parameter
Quality(q) ==
    CASE q = "" -> 10
      [] q = "0.5" -> 5

Range(s) == {s[k] : k \in 1..Len(s)}

\* x put behind every element of sorted whose quality is not below its own
RECURSIVE InsertByQuality(_, _)
InsertByQuality(x, sorted) ==
    IF sorted = <<>> THEN <<x>>
    ELSE IF Quality(Head(sorted).q) >= Quality(x.q)
    THEN <<Head(sorted)>> \o InsertByQuality(x, Tail(sorted))
    ELSE <<x>> \o sorted

RECURSIVE SortByQuality(_)
SortByQuality(segs) ==
    IF segs = <<>> THEN <<>>
    ELSE InsertByQuality(segs[Len(segs)],
                         SortByQuality(SubSeq(segs, 1, Len(segs) - 1)))

\* AcceptLanguage(value).best_matches(): the names by descending quality,
\* in header order among equal qualities (sorted() is stable)
best_matches(segs) ==
    LET sorted == SortByQuality(segs) IN [k \in 1..Len(sorted) |-> sorted[k].name]

\* environ.get("HTTP_ACCEPT_LANGUAGE", self.default_language): the default
\* language, a bare tag, parses to one segment without a q parameter
HeaderValue(header, default_language) ==
    IF header = None THEN <<[name |-> default_language, q |-> ""]>>
    ELSE header[1]

\* a faulty variant: the default is never appended
BestMatchesOnly(header, default_language) ==
    best_matches(HeaderValue(header, default_language))

\* a faulty variant: the default is appended whether present or not
AppendAlways(header, default_language) ==
    Append(best_matches(HeaderValue(header, default_language)), default_language)

\* lines 132-136
PreferredLanguages(header, default_language) ==
    LET preferred_languages == best_matches(HeaderValue(header, default_language)) IN
    IF ~(default_language \in Range(preferred_languages))
    THEN Append(preferred_languages, default_language)
    ELSE preferred_languages

(***************************************************************************)
(* gettext.translation, as the middleware and get_i18n_js call it.  mo is  *)
(* the set of <<domain, dir>> whose compiled catalog exists, as            *)
(* dir/LC_MESSAGES/domain.mo, under the locale directory of the call: the  *)
(* middleware's self.locale_path (line 138) or the handler's 'locales',    *)
(* relative to the working directory (line 98).                            *)
(***************************************************************************)
Domains == {"messages", "jsmessages"}

\* gettext._expand_lang(lang): the directory names tried for a language, from
\* the locale locale.normalize gives it down to the bare tag
_expand_lang(lang) ==
    CASE lang = "en" -> <<"en_US.ISO8859-1", "en_US", "en.ISO8859-1", "en">>
      [] lang = "pl" -> <<"pl_PL.ISO8859-2", "pl_PL", "pl.ISO8859-2", "pl">>
      [] lang = "ja" -> <<"ja_JP.eucJP", "ja_JP", "ja.eucJP", "ja">>

\* the directory names of gettext.find's list nelangs, before duplicates are
\* dropped
RECURSIVE ExpandAll(_)
ExpandAll(languages) ==
    IF languages = <<>> THEN <<>>
    ELSE _expand_lang(Head(languages)) \o ExpandAll(Tail(languages))

\* the language a directory was compiled for
LanguageOf(dir) ==
    CHOOSE l \in Langs : \E k \in 1..4 : _expand_lang(l)[k] = dir

\* what the catalog file of a directory holds; the jsmessages catalog of
\* en_US declares 'nplurals=two'
CatalogOnDisk(domain, dir) ==
    LET lang == LanguageOf(dir) IN
    CASE domain = "jsmessages" /\ dir = "en_US" ->
            (MetaKey :> MetaBadNPlurals) @@ (StrKey("Hello") :> <<"Hello">>)
      [] lang = "en" ->
            (StrKey("Hello") :> <<"Hello">>)
      [] lang = "pl" ->
            (MetaKey :> MetaThreeForms) @@ (StrKey("Hello") :> <<"Czesc">>)
            @@ (TupleKey("Cart", <<"0">>) :> <<"koszyk">>)
      [] lang = "ja" ->
            (MetaKey :> MetaOneForm) @@ (StrKey("Cart") :> <<"kato">>)

RECURSIVE Dedupe(_, _)
Dedupe(langs, seen) ==
    IF langs = <<>> THEN <<>>
    ELSE IF Head(langs) \in seen THEN Dedupe(Tail(langs), seen)
    ELSE <<Head(langs)>> \o Dedupe(Tail(langs), seen \cup {Head(langs)})

RECURSIVE Existing(_, _, _)
Existing(domain, mo, langs) ==
    IF langs = <<>> THEN <<>>
    ELSE (IF <<domain, Head(langs)>> \in mo THEN <<Head(langs)>> ELSE <<>>)
         \o Existing(domain, mo, Tail(langs))

\* gettext.find(domain, localedir, languages, all=1): the directories of the
\* expanded languages, each once and in order, that have a catalog file
Find(domain, mo, languages) ==
    Existing(domain, mo, Dedupe(ExpandAll(languages), {}))

\* a NullTranslations object has a _fallback and no _catalog
NullTranslations ==
    [class |-> "NullTranslations", _fallback |-> None]

\* the loop of gettext.translation: the first catalog, each later one added
\* behind the last by add_fallback
RECURSIVE Chain(_, _)
Chain(domain, mofiles) ==
    Translations(CatalogOnDisk(domain, Head(mofiles)),
                 IF Len(mofiles) = 1 THEN None
                 ELSE Some(Chain(domain, Tail(mofiles))))

\* gettext.translation(domain, localedir, fallback=fallback, languages=languages)
gettext_translation(domain, mo, languages, fallback) ==
    LET mofiles == Find(domain, mo, languages) IN
    IF mofiles = <<>>
    THEN IF fallback THEN [ok |-> TRUE, exc |-> "", val |-> Some(NullTranslations)]
         ELSE Raised("IOError")
    ELSE [ok |-> TRUE, exc |-> "", val |-> Some(Chain(domain, mofiles))]

\* translation.ugettext(message): the catalog's string, else the fallback's
\* answer, else the message itself
RECURSIVE ugettext(_, _)
ugettext(translation, message) ==
    IF /\ translation.class = "GNUTranslations"
       /\ StrKey(message) \in DOMAIN translation._catalog
    THEN translation._catalog[StrKey(message)]
    ELSE IF translation._fallback # None
    THEN ugettext(translation._fallback[1], message)
    ELSE <<message>>

(***************************************************************************)
(* BaseHandler.get_i18n_js, lines 91-108, on the environ the handler was   *)
(* given.  The result is [ok, exc, template, translations]: the template   *)
(* rendered and the dict handed to it through json.dumps (None for the     *)
(* null template, which is rendered without arguments).  self.jinja2_env   *)
(* reads environ['active_translation'] (line 81).                          *)
(***************************************************************************)
JsRaised(exc) ==
    [ok |-> FALSE, exc |-> exc, template |-> "", translations |-> None]

get_i18n_js(environ, mo, orders) ==
    IF environ.preferred_languages = None THEN JsRaised("KeyError")
    ELSE
    LET js == gettext_translation("jsmessages", mo,
                                  environ.preferred_languages[1], FALSE) IN
    IF ~js.ok
    THEN IF environ.active_translation = None THEN JsRaised("KeyError")
         ELSE [ok |-> TRUE, exc |-> "", template |-> "null_i18n_js.jinja2",
               translations |-> None]
    ELSE
    LET translations_dict == convert_translations_to_dict(js.val[1], orders) IN
    IF ~translations_dict.ok THEN JsRaised(translations_dict.exc)
    ELSE IF environ.active_translation = None THEN JsRaised("KeyError")
    ELSE [ok |-> TRUE, exc |-> "", template |-> "i18n_js.jinja2",
          translations |-> translations_dict.val]

\* the iteration orders of the catalogs get_i18n_js converts
JsItemOrders(environ, mo) ==
    IF environ.preferred_languages = None THEN {<<>>}
    ELSE LET js == gettext_translation("jsmessages", mo,
                                       environ.preferred_languages[1], FALSE) IN
         IF js.ok THEN ItemOrders(js.val[1]) ELSE {<<>>}

(***************************************************************************)
(* State.                                                                  *)
(***************************************************************************)
Reqs == 1..NumReq

VARIABLES
    js_translations,     \* the object convert_translations_to_dict is called on
    conv_out,            \* the results of the calls made on it so far
    default_language,    \* self.default_language
    mo_files,            \* the <<domain, dir>> with a compiled catalog
                         \* under self.locale_path
    cwd_locales,         \* the <<domain, dir>> with a compiled catalog
                         \* under 'locales' of the working directory
    installed,           \* the translation each of the builtins _, gettext
                         \* and ngettext of the process is bound to (None:
                         \* not bound)
    underscore,          \* what install() read from the builtin _
    pc,                  \* where each request is in __call__
    environ,             \* each request's WSGI environ
    preferred_languages, \* the local of __call__
    translation,         \* the local of __call__
    resolved,            \* how often both keys were written to the environ
    app_calls,           \* how often self.app was invoked for the request
    app_environ,         \* the environ self.app was invoked with
    js_body,             \* what get_i18n_js returned to the request's handler
    outcome              \* how __call__ ended: [kind, by]

conv_vars == <<js_translations, conv_out>>
site_vars == <<default_language, mo_files, cwd_locales>>
req_vars == <<installed, underscore, pc, environ, preferred_languages, translation,
              resolved, app_calls, app_environ, js_body, outcome>>
vars == <<conv_vars, site_vars, req_vars>>

BuiltinNames == {"_", "gettext", "ngettext"}

NoEnviron ==
    [HTTP_ACCEPT_LANGUAGE |-> None, active_translation |-> None,
     preferred_languages |-> None]

Running == [kind |-> "running", by |-> ""]

InitRequests ==
    /\ installed = [n \in BuiltinNames |-> None]
    /\ underscore = [r \in Reqs |-> None]
    /\ pc = [r \in Reqs |-> "idle"]
    /\ environ = [r \in Reqs |-> NoEnviron]
    /\ preferred_languages = [r \in Reqs |-> None]
    /\ translation = [r \in Reqs |-> None]
    /\ resolved = [r \in Reqs |-> 0]
    /\ app_calls = [r \in Reqs |-> 0]
    /\ app_environ = [r \in Reqs |-> None]
    /\ js_body = [r \in Reqs |-> None]
    /\ outcome = [r \in Reqs |-> Running]

(***************************************************************************)
(* I18nMiddleware.__call__, lines 131-144, step by step.                   *)
(***************************************************************************)
\* lines 132-136, on a request that arrives with the given header
MwPreferredLanguages(r, header) ==
    /\ pc[r] = "idle"
    /\ environ' = [environ EXCEPT ![r].HTTP_ACCEPT_LANGUAGE = header]
    /\ preferred_languages' =
          [preferred_languages EXCEPT
              ![r] = Some(PreferredLanguages(header, default_language))]
    /\ pc' = [pc EXCEPT ![r] = "matched"]
    /\ UNCHANGED <<conv_vars, site_vars, installed, underscore, translation, resolved,
                   app_calls, app_environ, js_body, outcome>>

\* lines 137-139 with the given fallback argument; an exception leaves __call__
MwTranslationWith(r, fallback) ==
    /\ pc[r] = "matched"
    /\ LET t == gettext_translation("messages", mo_files,
                                    preferred_languages[r][1], fallback) IN
       IF t.ok
       THEN /\ translation' = [translation EXCEPT ![r] = t.val]
            /\ pc' = [pc EXCEPT ![r] = "translated"]
            /\ UNCHANGED outcome
       ELSE /\ outcome' = [outcome EXCEPT ![r] = [kind |-> "raised", by |-> "middleware"]]
            /\ pc' = [pc EXCEPT ![r] = "done"]
            /\ UNCHANGED translation
    /\ UNCHANGED <<conv_vars, site_vars, installed, underscore, environ, preferred_languages,
                   resolved, app_calls, app_environ, js_body>>

\* a faulty variant: fallback=False
MwTranslationNoFallback(r) == MwTranslationWith(r, FALSE)

\* lines 137-139
MwTranslation(r) == MwTranslationWith(r, TRUE)

\* line 140: translation.install(unicode=True, names=['gettext', 'ngettext'])
\* is four steps of the thread: it binds the builtin _ to the translation,
\* reads the builtin _ back, binds the builtin gettext to what it read, and
\* binds the builtin ngettext to the translation
MwInstallUnderscore(r) ==
    /\ pc[r] = "translated"
    /\ installed' = [installed EXCEPT !["_"] = translation[r]]
    /\ pc' = [pc EXCEPT ![r] = "install_read"]
    /\ UNCHANGED <<conv_vars, site_vars, underscore, environ, preferred_languages,
                   translation, resolved, app_calls, app_environ, js_body, outcome>>

MwInstallReadUnderscore(r) ==
    /\ pc[r] = "install_read"
    /\ underscore' = [underscore EXCEPT ![r] = installed["_"]]
    /\ pc' = [pc EXCEPT ![r] = "install_gettext"]
    /\ UNCHANGED <<conv_vars, site_vars, installed, environ, preferred_languages,
                   translation, resolved, app_calls, app_environ, js_body, outcome>>

MwInstallGettext(r) ==
    /\ pc[r] = "install_gettext"
    /\ installed' = [installed EXCEPT !["gettext"] = underscore[r]]
    /\ underscore' = [underscore EXCEPT ![r] = None]
    /\ pc' = [pc EXCEPT ![r] = "install_ngettext"]
    /\ UNCHANGED <<conv_vars, site_vars, environ, preferred_languages,
                   translation, resolved, app_calls, app_environ, js_body, outcome>>

MwInstallNgettext(r) ==
    /\ pc[r] = "install_ngettext"
    /\ installed' = [installed EXCEPT !["ngettext"] = translation[r]]
    /\ pc' = [pc EXCEPT ![r] = "installed"]
    /\ UNCHANGED <<conv_vars, site_vars, underscore, environ, preferred_languages,
                   translation, resolved, app_calls, app_environ, js_body, outcome>>

\* lines 141-142
MwAttach(r) ==
    /\ pc[r] = "installed"
    /\ environ' = [environ EXCEPT ![r].active_translation = translation[r],
                                  ![r].preferred_languages = preferred_languages[r]]
    /\ resolved' = [resolved EXCEPT ![r] = @ + 1]
    /\ pc' = [pc EXCEPT ![r] = "attached"]
    /\ UNCHANGED <<conv_vars, site_vars, installed, underscore, preferred_languages, translation,
                   app_calls, app_environ, js_body, outcome>>

\* line 144, reached from the given place: self.app(environ, start_response)
MwCallAppAt(r, at) ==
    /\ pc[r] = at
    /\ app_calls' = [app_calls EXCEPT ![r] = @ + 1]
    /\ app_environ' = [app_environ EXCEPT ![r] = Some(environ[r])]
    /\ pc' = [pc EXCEPT ![r] = "app"]
    /\ UNCHANGED <<conv_vars, site_vars, installed, underscore, environ, preferred_languages,
                   translation, resolved, js_body, outcome>>

\* a faulty variant: the app is invoked before the environ is written
MwCallAppEarly(r) == MwCallAppAt(r, "installed")

\* line 144
MwCallApp(r) == MwCallAppAt(r, "attached")

(***************************************************************************)
(* The wrapped app, while __call__ waits in line 144: a handler may ask    *)
(* for the script body once, and the app returns or raises.  get_i18n_js   *)
(* reads the catalogs under 'locales' of the working directory (line 98).  *)
(***************************************************************************)
HandlerGetI18nJs(r) ==
    /\ pc[r] = "app"
    /\ js_body[r] = None
    /\ \E orders \in JsItemOrders(app_environ[r][1], cwd_locales) :
          LET body == get_i18n_js(app_environ[r][1], cwd_locales, orders) IN
          /\ js_body' = [js_body EXCEPT ![r] = Some(body)]
          /\ IF body.ok
             THEN UNCHANGED <<pc, outcome>>
             ELSE /\ pc' = [pc EXCEPT ![r] = "done"]
                  /\ outcome' = [outcome EXCEPT ![r] = [kind |-> "raised", by |-> "app"]]
    /\ UNCHANGED <<conv_vars, site_vars, installed, underscore, environ, preferred_languages,
                   translation, resolved, app_calls, app_environ>>

\* line 144: what the app returns is what __call__ returns
AppReturn(r) ==
    /\ pc[r] = "app"
    /\ pc' = [pc EXCEPT ![r] = "done"]
    /\ outcome' = [outcome EXCEPT ![r] = [kind |-> "returned", by |-> "app"]]
    /\ UNCHANGED <<conv_vars, site_vars, installed, underscore, environ, preferred_languages,
                   translation, resolved, app_calls, app_environ, js_body>>

\* line 144: what the app raises leaves __call__ unchanged
AppRaise(r) ==
    /\ pc[r] = "app"
    /\ pc' = [pc EXCEPT ![r] = "done"]
    /\ outcome' = [outcome EXCEPT ![r] = [kind |-> "raised", by |-> "app"]]
    /\ UNCHANGED <<conv_vars, site_vars, installed, underscore, environ, preferred_languages,
                   translation, resolved, app_calls, app_environ, js_body>>

(***************************************************************************)
(* Inputs.                                                                 *)
(***************************************************************************)
RECURSIVE SeqsUpTo(_, _)
SeqsUpTo(S, n) ==
    IF n = 0 THEN {<<>>}
    ELSE LET shorter == SeqsUpTo(S, n - 1) IN
         shorter \cup {Append(s, x) : s \in shorter, x \in S}

\* an absent header, or one of at most MaxSegs segments
Headers == {None} \cup {Some(h) : h \in SeqsUpTo(Segments, MaxSegs)}

\* 'pl' and an absent header
HeaderSamples ==
    {None, Some(<<[name |-> "pl", q |-> ""]>>)}

\* the sites: some domains compiled for some languages under the bare tag
\* (pl), for one language under language and territory (pl_PL), and for
\* Japanese under both names
MoSites ==
    {D \X L : D \in SUBSET Domains, L \in SUBSET Langs}
    \cup {D \X {_expand_lang(l)[2]} : D \in SUBSET Domains, l \in Langs}
    \cup {D \X {"ja_JP", "ja"} : D \in SUBSET Domains}

\* every catalog compiled under the bare tag, and none
MoSamples == {Domains \X Langs, {}}

\* what self.locale_path and 'locales' hold: they are one directory (the
\* default locale_path, with the module's directory as working directory),
\* or two directories of which one holds every catalog and the other none
SitePairs ==
    {<<mo, mo>> : mo \in MoSites} \cup (MoSamples \X MoSamples)

IdleConverter ==
    /\ js_translations = Translations(EmptyDict, None)
    /\ conv_out = <<>>

(***************************************************************************)
(* One request, with every header, default language and set of catalogs.   *)
(***************************************************************************)
Init ==
    /\ IdleConverter
    /\ default_language \in Langs
    /\ \E site \in SitePairs :
          /\ mo_files = site[1]
          /\ cwd_locales = site[2]
    /\ InitRequests

Next ==
    \E r \in {1} :
        \/ \E header \in Headers : MwPreferredLanguages(r, header)
        \/ MwTranslation(r)
        \/ MwInstallUnderscore(r)
        \/ MwInstallReadUnderscore(r)
        \/ MwInstallGettext(r)
        \/ MwInstallNgettext(r)
        \/ MwAttach(r)
        \/ MwCallApp(r)
        \/ HandlerGetI18nJs(r)
        \/ AppReturn(r)
        \/ AppRaise(r)

Spec == Init /\ [][Next]_vars

(***************************************************************************)
(* NumReq requests handled concurrently, each in its own thread.           *)
(***************************************************************************)
InitConc ==
    /\ IdleConverter
    /\ default_language = "en"
    /\ mo_files \in MoSamples
    /\ cwd_locales \in MoSamples
    /\ InitRequests

NextConc ==
    \E r \in Reqs :
        \/ \E header \in HeaderSamples : MwPreferredLanguages(r, header)
        \/ MwTranslation(r)
        \/ MwInstallUnderscore(r)
        \/ MwInstallReadUnderscore(r)
        \/ MwInstallGettext(r)
        \/ MwInstallNgettext(r)
        \/ MwAttach(r)
        \/ MwCallApp(r)
        \/ HandlerGetI18nJs(r)
        \/ AppReturn(r)
        \/ AppRaise(r)

SpecConc == InitConc /\ [][NextConc]_vars

(***************************************************************************)
(* The converter, called twice on the same catalog.                        *)
(***************************************************************************)
InitConv ==
    /\ js_translations \in ConvInputs
    /\ conv_out = <<>>
    /\ default_language = "en"
    /\ mo_files = {}
    /\ cwd_locales = {}
    /\ InitRequests

Convert ==
    /\ Len(conv_out) < 2
    /\ \E orders \in ItemOrders(js_translations) :
          conv_out' = Append(conv_out,
                             convert_translations_to_dict(js_translations, orders))
    /\ UNCHANGED <<js_translations, site_vars, req_vars>>

NextConv == Convert

SpecConv == InitConv /\ [][NextConv]_vars

(***************************************************************************)
(* Properties of the middleware and of get_i18n_js.                        *)
(***************************************************************************)
NoDuplicates(l) == \A i, j \in 1..Len(l) : i # j => l[i] # l[j]

\* C1: the preferred-language list stored in the request context contains
\* the default language, whatever the header; with no header and the default
\* "en" it is exactly ["en"].
C1_DefaultInPreferred ==
    \A r \in Reqs :
        environ[r].preferred_languages # None =>
            LET l == environ[r].preferred_languages[1] IN
            /\ default_language \in Range(l)
            /\ (environ[r].HTTP_ACCEPT_LANGUAGE = None /\ default_language = "en")
                  => l = <<"en">>

\* C1 witness: a list was stored for a header that does not name the default.
C1_Witness ==
    \E r \in Reqs :
        /\ environ[r].preferred_languages # None
        /\ environ[r].HTTP_ACCEPT_LANGUAGE # None
        /\ environ[r].HTTP_ACCEPT_LANGUAGE[1] # <<>>
        /\ \A k \in 1..Len(environ[r].HTTP_ACCEPT_LANGUAGE[1]) :
              environ[r].HTTP_ACCEPT_LANGUAGE[1][k].name # default_language

\* the header 'pl,en;q=0.5'
HeaderPlEn == <<[name |-> "pl", q |-> ""], [name |-> "en", q |-> "0.5"]>>

\* C4 as claimed: the stored preferred-language list has no duplicate tag
\* for any header and default, and 'pl,en;q=0.5' with default "en" gives
\* exactly ["pl", "en"].
C4_NoDuplicates ==
    \A r \in Reqs :
        environ[r].preferred_languages # None =>
            LET l == environ[r].preferred_languages[1] IN
            /\ NoDuplicates(l)
            /\ (environ[r].HTTP_ACCEPT_LANGUAGE = Some(HeaderPlEn)
                /\ default_language = "en") => l = <<"pl", "en">>

\* l is h's names by descending quality, in header order among equal
\* qualities
IsStableRanking(l, h) ==
    /\ Len(l) = Len(h)
    /\ \E p \in Perms(1..Len(h)) :
          /\ \A i \in 1..Len(h) : l[i] = h[p[i]].name
          /\ \A i, j \in 1..Len(h) :
                i < j => \/ Quality(h[p[i]].q) > Quality(h[p[j]].q)
                         \/ /\ Quality(h[p[i]].q) = Quality(h[p[j]].q)
                            /\ p[i] < p[j]

\* C4 amended: the stored list is the header's tags by descending quality
\* (header order among equal qualities), followed by the default exactly
\* when the header does not name it; so the default is never duplicated, the
\* list has no duplicate whenever the header names no tag twice, and
\* 'pl,en;q=0.5' with default "en" gives exactly ["pl", "en"].
C4_DefaultAppendedOnce ==
    \A r \in Reqs :
        environ[r].preferred_languages # None =>
            LET l == environ[r].preferred_languages[1]
                h == HeaderValue(environ[r].HTTP_ACCEPT_LANGUAGE, default_language)
                named == \E k \in 1..Len(h) : h[k].name = default_language
            IN  /\ Len(l) = Len(h) + (IF named THEN 0 ELSE 1)
                /\ IsStableRanking(SubSeq(l, 1, Len(h)), h)
                /\ ~named => l[Len(l)] = default_language
                /\ NoDuplicates([k \in 1..Len(h) |-> h[k].name]) => NoDuplicates(l)
                /\ (environ[r].HTTP_ACCEPT_LANGUAGE = Some(HeaderPlEn)
                    /\ default_language = "en") => l = <<"pl", "en">>

\* C4 witness: the list stored for 'pl,en;q=0.5' with default "en".
C4_Witness ==
    \E r \in Reqs :
        /\ environ[r].HTTP_ACCEPT_LANGUAGE = Some(HeaderPlEn)
        /\ default_language = "en"
        /\ environ[r].preferred_languages = Some(<<"pl", "en">>)

\* C2 as claimed: while a request's handler runs, the process-wide gettext
\* functions are never bound to the catalog another request resolved.
C2_NoCrossRequestLookup ==
    \A r \in Reqs :
        pc[r] = "app" =>
            \A n \in BuiltinNames : installed[n] \in {None, translation[r]}

\* C3: each request is resolved exactly once, before the wrapped app is
\* invoked; the app is invoked exactly once, with the request's own environ
\* holding both keys, and no handler finds a key missing.
C3_ResolvedOnceBeforeApp ==
    \A r \in Reqs :
        /\ resolved[r] <= 1
        /\ app_calls[r] <= 1
        /\ app_calls[r] = 1 =>
              /\ resolved[r] = 1
              /\ app_environ[r] = Some(environ[r])
              /\ environ[r].active_translation # None
              /\ environ[r].preferred_languages # None
        /\ js_body[r] # None => js_body[r][1].exc # "KeyError"
        /\ pc[r] = "done" => app_calls[r] = 1

\* C3 witness: a request whose handler asked for the script body has ended
\* while another request is inside __call__.
C3_Witness ==
    \E r, o \in Reqs :
        /\ r # o
        /\ pc[r] = "done"
        /\ js_body[r] # None
        /\ app_calls[r] = 1
        /\ pc[o] \notin {"idle", "done"}

\* the directories of a list's languages that have a catalog of the domain
\* under self.locale_path
WithCatalog(domain, l) ==
    {d \in Range(ExpandAll(l)) : <<domain, d>> \in mo_files}

\* the first directory of a list's languages that has a catalog of the domain
\* under self.locale_path
FirstWithCatalog(domain, l) ==
    LET dirs == ExpandAll(l) IN
    dirs[CHOOSE k \in 1..Len(dirs) :
          /\ <<domain, dirs[k]>> \in mo_files
          /\ \A j \in 1..(k - 1) : <<domain, dirs[j]>> \notin mo_files]

\* the msgids of a catalog
MsgIds(_catalog) == {key.id : key \in DOMAIN _catalog \ {MetaKey}}

\* C5 as claimed: when no preferred language has a jsmessages catalog under
\* the configured locale path, get_i18n_js returns the null template's body
\* and does not raise; when one has, it returns the i18n_js template's body
\* with the converted catalog of the first such directory.
C5_NoScriptCatalogGivesNullBody ==
    \A r \in Reqs :
        (js_body[r] # None /\ app_environ[r][1].preferred_languages # None) =>
            LET body == js_body[r][1]
                l == app_environ[r][1].preferred_languages[1]
            IN  IF WithCatalog("jsmessages", l) = {}
                THEN /\ body.ok
                     /\ body.template = "null_i18n_js.jinja2"
                     /\ body.translations = None
                ELSE /\ body.ok
                     /\ body.template = "i18n_js.jinja2"
                     /\ body.translations # None
                     /\ DOMAIN body.translations[1].catalog =
                           MsgIds(CatalogOnDisk("jsmessages",
                                                FirstWithCatalog("jsmessages", l)))

\* the messages looked up
Messages == {"Hello", "Cart", "Bye"}

\* C6: whatever messages catalogs exist, the middleware attaches a catalog
\* (one whose lookups return the key when no preferred language has a
\* catalog) and invokes the wrapped app; nothing but the app makes __call__
\* raise.
C6_MissingCatalogsNeverFail ==
    \A r \in Reqs :
        /\ outcome[r].kind = "raised" => outcome[r].by = "app"
        /\ pc[r] = "done" => app_calls[r] = 1
        /\ app_calls[r] = 1 => environ[r].active_translation # None
        /\ (environ[r].active_translation # None
            /\ WithCatalog("messages", environ[r].preferred_languages[1]) = {})
              => \A m \in Messages :
                    ugettext(environ[r].active_translation[1], m) = <<m>>

\* C6 witness: the app returned for a request none of whose preferred
\* languages has a messages catalog.
C6_Witness ==
    \E r \in Reqs :
        /\ pc[r] = "done"
        /\ outcome[r] = [kind |-> "returned", by |-> "app"]
        /\ environ[r].active_translation # None
        /\ WithCatalog("messages", environ[r].preferred_languages[1]) = {}
        /\ mo_files # {}

(***************************************************************************)
(* Properties of convert_translations_to_dict.                             *)
(***************************************************************************)
\* the metadata entry of a catalog, None without one
MetaOf(_catalog) ==
    IF MetaKey \in DOMAIN _catalog THEN Some(_catalog[MetaKey]) ELSE None

\* the nplurals a catalog's metadata declares, 2 when it declares none
DeclaredNPlurals(_catalog) ==
    CASE MetaOf(_catalog) = Some(MetaThreeForms) -> 3
      [] MetaOf(_catalog) = Some(MetaNoPluralExpr) -> 3
      [] MetaOf(_catalog) = Some(MetaOneForm) -> 1
      [] MetaOf(_catalog) = Some(MetaSixForms) -> 6
      [] MetaOf(_catalog) = Some(MetaUnicodeSpaces) -> 3
      [] MetaOf(_catalog) = Some(MetaSignedNPlurals) -> 3
      [] MetaOf(_catalog) = Some(MetaCrLf) -> 12
      [] OTHER -> 2

\* the metadata is absent or has a Plural-Forms line that parses
WellFormedMeta(_catalog) ==
    MetaOf(_catalog) \in
        {None, Some(MetaNoPluralForms), Some(MetaThreeForms), Some(MetaOneForm),
         Some(MetaSixForms), Some(MetaCrLf), Some(MetaUnicodeSpaces),
         Some(MetaSignedNPlurals)}

\* every plural index of the catalog is below nplurals
IndicesInRange(_catalog) ==
    \A key \in DOMAIN _catalog :
        key.t = "tuple" =>
            /\ IntOf(key.i).ok
            /\ IntOf(key.i).val >= 0
            /\ IntOf(key.i).val < DeclaredNPlurals(_catalog)

\* C7 as claimed: converting a catalog without a fallback (whose metadata is
\* well formed and whose plural indices are below nplurals) returns, and in
\* the returned 'catalog' every plain key maps to its string, every
\* pluralized msgid to a list of nplurals strings holding each form at its
\* index and '' elsewhere, and the metadata entry is not copied.
C7_NoDataLoss ==
    LET c == js_translations._catalog IN
    (/\ js_translations._fallback = None
     /\ WellFormedMeta(c)
     /\ IndicesInRange(c)) =>
        \A n \in 1..Len(conv_out) :
            /\ conv_out[n].ok
            /\ LET out == conv_out[n].val[1].catalog IN
               /\ DOMAIN out = MsgIds(c)
               /\ \A key \in DOMAIN c \ {MetaKey} :
                     IF key.t = "str"
                     THEN out[key.id] = StrVal(c[key])
                     ELSE /\ out[key.id].t = "list"
                          /\ Len(out[key.id].l) = DeclaredNPlurals(c)
                          /\ out[key.id].l[IntOf(key.i).val + 1] = c[key]
                          /\ \A k \in 1..Len(out[key.id].l) :
                                (\A other \in DOMAIN c :
                                    (other.t = "tuple" /\ other.id = key.id)
                                        => IntOf(other.i).val # k - 1)
                                => out[key.id].l[k] = <<>>

\* C8 as claimed: with the metadata entry absent, without a Plural-Forms
\* line or with one that cannot be parsed, the conversion does not fail on
\* the metadata and uses nplurals = 2 and plural = '(n == 1) ? 0 : 1'.
C8_DefaultPluralRule ==
    LET c == js_translations._catalog IN
    MetaOf(c) \in {None, Some(MetaNoPluralForms)}
                  \cup {Some(m) : m \in UnparseableMetas} =>
        \A n \in 1..Len(conv_out) :
            /\ conv_out[n].exc # "ValueError"
            /\ conv_out[n].ok =>
                  /\ conv_out[n].val[1].plural = DefaultPlural
                  /\ \A m \in DOMAIN conv_out[n].val[1].catalog :
                        conv_out[n].val[1].catalog[m].t = "list" =>
                            Len(conv_out[n].val[1].catalog[m].l) = 2

\* the catalogs of a chain, the primary first
RECURSIVE ChainCatalogs(_)
ChainCatalogs(tr) ==
    <<tr._catalog>> \o
    (IF tr._fallback = None THEN <<>> ELSE ChainCatalogs(tr._fallback[1]))

\* the levels of a converted dict, the outermost first
RECURSIVE WireLevels(_)
WireLevels(d) ==
    <<d>> \o (IF d.fallback = None THEN <<>> ELSE WireLevels(d.fallback[1]))

\* C9: the dict returned for a catalog with an N-link fallback chain has
\* exactly N nested non-null 'fallback' levels, the k-th holding the k-th
\* catalog's own plural rule and msgids, and 'fallback' is null at the end.
C9_FallbackLevels ==
    \A n \in 1..Len(conv_out) :
        conv_out[n].ok =>
            LET cats == ChainCatalogs(js_translations)
                levels == WireLevels(conv_out[n].val[1])
            IN  /\ Len(levels) = Len(cats)
                /\ levels[Len(levels)].fallback = None
                /\ \A k \in 1..Len(cats) :
                      /\ levels[k].plural = PluralRule(cats[k]).plural
                      /\ DOMAIN levels[k].catalog = MsgIds(cats[k])

\* C9 witness: a catalog with a two-link chain was converted.
C9_Witness ==
    \E n \in 1..Len(conv_out) :
        /\ conv_out[n].ok
        /\ Len(ChainCatalogs(js_translations)) = 3
        /\ conv_out[n].val[1].fallback # None
        /\ conv_out[n].val[1].fallback[1].fallback # None

\* C10 as claimed: two calls on the same catalog return equal results,
\* whatever order the entries are iterated in.
C10_Deterministic ==
    Len(conv_out) = 2 => conv_out[1] = conv_out[2]

=============================================================================
